---- MODULE Spec2Model ----
(***************************************************************************)
(* post-collaboration-reply.py: the credential check at import time, the   *)
(* endpoint scan of post_forum_reply and the exit code chosen by __main__. *)
(*                                                                         *)
(* Environment: the value of COLOSSEUM_API_KEY, and for every POST either  *)
(* a transport exception or a response (status, text, JSON decoding).      *)
(* A str is modelled as [s, enc]: its characters and whether sys.stdout    *)
(* can encode it.  The text the program itself composes is encodable; a    *)
(* text taken from the response need not be (a lone surrogate makes        *)
(* print raise UnicodeEncodeError).  The output lines are those of the     *)
(* source without their emoji.                                             *)
(***************************************************************************)
EXTENDS Integers, Sequences, FiniteSets, TLC

\* ------------------------------------------------------------------ values

\* os.getenv returns None for a variable that is not set
None == "<None>"

\* the values COLOSSEUM_API_KEY can have: unset, set but empty, set
KeyValues == {None, "", "key-A", "key-B"}

\* os.getenv('API_BASE', default), taken at its default
API_BASE == "https://agents.colosseum.com/api"

\* the literal reply text (abbreviated)
REPLY_CONTENT == "Hey Solder Cortex team! ... **ARS Team**"

SOLDER_CORTEX_POST_ID == 914

\* the statuses a server answers with in the model
Statuses == {200, 201, 202, 204, 400, 404, 500}

\* a str and whether stdout's codec can encode it
Str(s) == [s |-> s, enc |-> TRUE]
Bad(s) == [s |-> s, enc |-> FALSE]

\* what response.json() gives: it raises (invalid), or it returns a dict
\* (object, with its keys among id and url), a list (array), or a value
\* that supports no `in` (scalar: a number, true, false, null)
JsonValues ==
    {[kind |-> "invalid", fields |-> <<>>],
     [kind |-> "scalar", fields |-> <<>>],
     [kind |-> "array", fields |-> <<>>],
     [kind |-> "object", fields |-> <<>>],
      [kind |-> "object", fields |-> [id |-> Str("42")]],
     [kind |-> "object", fields |-> [url |-> Str("https://x")]],
     [kind |-> "object", fields |-> [id |-> Str("42"), url |-> Str("https://x")]],
     [kind |-> "object", fields |-> [id |-> Str("42"), url |-> Bad("https://?")]],
     [kind |-> "object", fields |-> [id |-> Bad("?"), url |-> Str("https://x")]]}

Texts == {Str("body"), Bad("body?")}

\* the responses requests.post can return.  The scan reads the text of a
\* 400 and the text and JSON of a 200/201 only; a part it never reads is
\* fixed to one value.
Responses ==
    [status_code : {c \in Statuses : c \in {200, 201}},
     text : Texts, json : JsonValues]
    \cup [status_code : {400}, text : Texts,
          json : {[kind |-> "invalid", fields |-> <<>>]}]
    \cup [status_code : {c \in Statuses : c \notin {200, 201, 400}},
          text : {Str("body")},
          json : {[kind |-> "invalid", fields |-> <<>>]}]

\* the exceptions requests.post can raise (subclasses of Exception)
TransportErrors == {"ConnectionError"}

\* ------------------------------------------------------------------ state

VARIABLES
    API_KEY,     \* os.getenv('COLOSSEUM_API_KEY')
    pc,          \* "start", "scan", "await", "main", "exited"
    endpoints,   \* local of post_forum_reply
    headers,     \* local of post_forum_reply
    payload,     \* local of post_forum_reply
    idx,         \* position of `for url in endpoints` (1-based)
    posted,      \* the requests handed to requests.post, in order
    results,     \* per request: [raised, status], in order
    out,         \* the lines written to stdout
    success,     \* return value of post_forum_reply ("unset" before)
    exitCode     \* {} while running, {c} after the process ended with c

vars == <<API_KEY, pc, endpoints, headers, payload, idx, posted, results,
          out, success, exitCode>>

\* ------------------------------------------------------- python primitives

\* PyNot testing for the empty string only
PyNotEmptyOnly(v) == v = ""

\* `not v` for v a str or None
PyNot(v) == v = None \/ v = ""

\* f"{prefix}{t}"
Fmt(prefix, t) == [s |-> prefix \o t.s, enc |-> t.enc]

\* print(t): appends the line, or raises and writes nothing.
\* A statement result is [out, exc]; exc = "" when nothing was raised.
PyPrint(o, t) ==
    IF t.enc THEN [out |-> Append(o, t.s), exc |-> ""]
    ELSE [out |-> o, exc |-> "UnicodeEncodeError"]

\* print of each of the literal lines ls in turn (literals are encodable)
PrintLines(o, ls) == o \o ls

\* "=" * 60
Rule == "============================================================"

\* print(t) as the next statement after st: skipped when st raised
PyPrintThen(st, t) == IF st.exc # "" THEN st ELSE PyPrint(st.out, t)

\* -------------------------------------------------------- post_forum_reply

\* Endpoints with the second and third template exchanged
EndpointsSwapped(post_id) ==
    << API_BASE \o "/forum/posts/" \o ToString(post_id) \o "/comments",
       API_BASE \o "/forum/" \o ToString(post_id) \o "/comments",
       API_BASE \o "/forum/" \o ToString(post_id) \o "/replies",
       API_BASE \o "/posts/" \o ToString(post_id) \o "/replies" >>

Endpoints(post_id) ==
    << API_BASE \o "/forum/posts/" \o ToString(post_id) \o "/comments",
       API_BASE \o "/forum/" \o ToString(post_id) \o "/replies",
       API_BASE \o "/forum/" \o ToString(post_id) \o "/comments",
       API_BASE \o "/posts/" \o ToString(post_id) \o "/replies" >>

Headers(key) ==
    [Authorization |-> "Bearer " \o key, ContentType |-> "application/json"]

\* Payload under another key
PayloadContentKey(content) == [content |-> content]

Payload(content) == [body |-> content]

\* `response.status_code in [200, 201]`
IsSuccess(status) == status \in {200, 201}

\* the body of the inner try: decode, then echo id and url when present
ParseBody(st, r) ==
    LET data == r.json IN
    IF data.kind = "invalid" THEN [out |-> st.out, exc |-> "JSONDecodeError"]
    ELSE IF data.kind = "scalar" THEN [out |-> st.out, exc |-> "TypeError"]
    ELSE IF data.kind = "array" THEN st
    ELSE LET a == IF "id" \in DOMAIN data.fields
                  THEN PyPrint(st.out, Fmt("Reply ID: ", data.fields["id"]))
                  ELSE st
         IN  IF "url" \in DOMAIN data.fields
             THEN PyPrintThen(a, Fmt("Reply URL: ", data.fields["url"]))
             ELSE a

\* TryParse without its except clause
TryParseUncaught(st, r) == ParseBody(st, r)

\* try: ParseBody  except: pass
TryParse(st, r) == [out |-> ParseBody(st, r).out, exc |-> ""]

\* the body of the outer try once requests.post has returned r.
\* Result [out, exc, ret]: ret is TRUE when `return True` was executed.
TryBody(o, r) ==
    LET s1 == PyPrint(o, Str("   Status: " \o ToString(r.status_code)))
        s2 == IF r.status_code = 400
              THEN PyPrintThen(s1, Fmt("   Response: ", r.text))
              ELSE s1
    IN  IF s2.exc # "" THEN [out |-> s2.out, exc |-> s2.exc, ret |-> FALSE]
        ELSE IF IsSuccess(r.status_code)
        THEN LET s3 == PyPrint(s2.out, Str("   SUCCESS!"))
                 s4 == PyPrintThen(s3, Str(""))
                 s5 == PyPrintThen(s4, Str("Response:"))
                 s6 == PyPrintThen(s5, r.text)
                 s7 == PyPrintThen(s6, Str(""))
             IN  IF s7.exc # ""
                 THEN [out |-> s7.out, exc |-> s7.exc, ret |-> FALSE]
                 ELSE LET s8 == TryParse(s7, r)
                      IN  [out |-> s8.out, exc |-> s8.exc, ret |-> s8.exc = ""]
        ELSE LET s3 == PyPrint(s2.out,
                         Str("   Failed: " \o ToString(r.status_code)))
             IN  [out |-> s3.out, exc |-> s3.exc, ret |-> FALSE]

\* ExceptClause raising the exception again
ExceptClauseReraise(o, e) == [out |-> o, exc |-> e]

\* except Exception as e: print(f"   Error: {e}")
ExceptClause(o, e) == PyPrint(o, Str("   Error: " \o e))

\* the outer try when requests.post itself raised e
PostRaised(o, e) == [out |-> o, exc |-> e, ret |-> FALSE]

\* the rest of one pass of the loop body, t being the result of the try
\* body: the except clause if it raised, then the trailing print()
Iteration(t) ==
    IF t.ret THEN t
    ELSE LET h == IF t.exc # "" THEN ExceptClause(t.out, t.exc)
                  ELSE [out |-> t.out, exc |-> ""]
             z == PyPrintThen(h, Str(""))
         IN  [out |-> z.out, exc |-> z.exc, ret |-> FALSE]

\* ----------------------------------------------------------------- actions

Init ==
    /\ API_KEY \in KeyValues
    /\ pc = "start"
    /\ endpoints = <<>>
    /\ headers = <<>>
    /\ payload = <<>>
    /\ idx = 0
    /\ posted = <<>>
    /\ results = <<>>
    /\ out = <<>>
    /\ success = "unset"
    /\ exitCode = {}

\* `if not API_KEY:` taken: the message, then sys.exit(1)
MissingKey ==
    /\ pc = "start"
    /\ PyNot(API_KEY)
    /\ out' = PyPrint(out, Str("Error: COLOSSEUM_API_KEY not found in .env")).out
    /\ exitCode' = {1}
    /\ pc' = "exited"
    /\ UNCHANGED <<API_KEY, endpoints, headers, payload, idx, posted,
                   results, success>>

\* the key is there: __main__ calls post_forum_reply, which builds its
\* locals and prints its heading, up to the first pass of the loop
Enter ==
    /\ pc = "start"
    /\ ~ PyNot(API_KEY)
    /\ endpoints' = Endpoints(SOLDER_CORTEX_POST_ID)
    /\ headers' = Headers(API_KEY)
    /\ payload' = Payload(REPLY_CONTENT)
    /\ out' = PyPrintThen(PyPrintThen(PyPrint(out,
                 Str("Posting collaboration reply to post "
                     \o ToString(SOLDER_CORTEX_POST_ID) \o "...")),
                 Str("Content length: " \o ToString(Len(REPLY_CONTENT))
                     \o " characters")),
                 Str("")).out
    /\ idx' = 1
    /\ pc' = "scan"
    /\ UNCHANGED <<API_KEY, posted, results, success, exitCode>>

\* `for url in endpoints`: the Trying line and the call of requests.post
Post ==
    /\ pc = "scan"
    /\ idx <= Len(endpoints)
    /\ out' = PyPrint(out, Str("Trying: " \o endpoints[idx])).out
    /\ posted' = Append(posted, [url |-> endpoints[idx], json |-> payload,
                                 headers |-> headers])
    /\ pc' = "await"
    /\ UNCHANGED <<API_KEY, endpoints, headers, payload, idx, results,
                   success, exitCode>>

\* what follows one pass `it` of the loop body: return True, an exception
\* nothing catches (the interpreter ends the process with status 1), the
\* next pass, or the end of the loop and return False
Finish(it) ==
    /\ UNCHANGED <<API_KEY, endpoints, headers, payload, posted>>
    /\ IF it.ret
       THEN /\ out' = it.out
            /\ success' = "True"
            /\ pc' = "main"
            /\ UNCHANGED <<idx, exitCode>>
       ELSE IF it.exc # ""
       THEN /\ out' = it.out
            /\ exitCode' = {1}
            /\ pc' = "exited"
            /\ UNCHANGED <<idx, success>>
       ELSE IF idx < Len(endpoints)
       THEN /\ out' = it.out
            /\ idx' = idx + 1
            /\ pc' = "scan"
            /\ UNCHANGED <<success, exitCode>>
       ELSE /\ out' = PyPrint(it.out,
                   Str("All endpoints failed. Manual posting required.")).out
            /\ success' = "False"
            /\ pc' = "main"
            /\ UNCHANGED <<idx, exitCode>>

\* requests.post returns the response r
PostReturns ==
    /\ pc = "await"
    /\ \E r \in Responses :
         /\ results' = Append(results, [raised |-> FALSE, response |-> r])
         /\ Finish(Iteration(TryBody(out, r)))

\* requests.post raises
PostRaises ==
    /\ pc = "await"
    /\ \E e \in TransportErrors :
         /\ results' = Append(results, [raised |-> TRUE, response |-> e])
         /\ Finish(Iteration(PostRaised(out, e)))

\* __main__ after the call: `if success:` ... sys.exit(0)
MainSuccess ==
    /\ pc = "main"
    /\ success = "True"
    /\ out' = PrintLines(out,
          << "", Rule, "COLLABORATION REPLY POSTED!", Rule, "",
             "Next steps:",
             "1. Monitor for Solder Cortex response (24-48 hours)",
             "2. If positive response: Schedule call immediately",
             "3. If no response by Feb 6 9AM: Follow up once",
             "4. Review COLLABORATION_PLAN.md for detailed timeline",
             "",
             "View the post:",
             "https://colosseum.com/agent-hackathon/forum/914",
             "" >>)
    /\ exitCode' = {0}
    /\ pc' = "exited"
    /\ UNCHANGED <<API_KEY, endpoints, headers, payload, idx, posted,
                   results, success>>

\* __main__ after the call: `else:` ... sys.exit(1)
MainFailure ==
    /\ pc = "main"
    /\ success # "True"
    /\ out' = PrintLines(out,
          << "", "Failed to post collaboration reply",
             "Check API key and try again" >>)
    /\ exitCode' = {1}
    /\ pc' = "exited"
    /\ UNCHANGED <<API_KEY, endpoints, headers, payload, idx, posted,
                   results, success>>

Next ==
    \/ MissingKey
    \/ Enter
    \/ Post
    \/ PostReturns
    \/ PostRaises
    \/ MainSuccess
    \/ MainFailure

Spec == Init /\ [][Next]_vars

TypeOK ==
    /\ API_KEY \in KeyValues
    /\ pc \in {"start", "scan", "await", "main", "exited"}
    /\ idx \in 0..4
    /\ Len(posted) <= 4
    /\ Len(results) <= Len(posted)
    /\ success \in {"unset", "True", "False"}
    /\ exitCode \in {{}, {0}, {1}}

\* ------------------------------------------------------------- vocabulary

\* the four candidate URLs in the order post_forum_reply declares them
DeclaredOrder ==
    << "https://agents.colosseum.com/api/forum/posts/914/comments",
       "https://agents.colosseum.com/api/forum/914/replies",
       "https://agents.colosseum.com/api/forum/914/comments",
       "https://agents.colosseum.com/api/posts/914/replies" >>

HasKey == API_KEY \notin {None, ""}

Urls == [k \in 1..Len(posted) |-> posted[k].url]

Prefix(n) == [k \in 1..n |-> DeclaredOrder[k]]

Returned(k) == ~ results[k].raised

StatusOf(k) == results[k].response.status_code

\* request k was answered with status 200 or 201
SuccessStatus(k) == Returned(k) /\ StatusOf(k) \in {200, 201}

Non2xx(k) == Returned(k) /\ StatusOf(k) \notin 200..299

Ended == pc \in {"main", "exited"}

ErrorLines(o) ==
    Cardinality({j \in 1..Len(o) :
        o[j] \in {"   Error: " \o e : e \in {"ConnectionError",
                  "UnicodeEncodeError", "JSONDecodeError", "TypeError"}}})

\* the step in which the outcome of a request is handled
Handled == Len(results') = Len(results) + 1

Last == results'[Len(results')]

\* ------------------------------------------------------------------ claims

\* C1: when COLOSSEUM_API_KEY is not in the environment, no POST is ever
\* issued and the only way the program ends is with exit code 1.
C1_NoKeyExitsOneWithoutPost ==
    API_KEY = None =>
        /\ posted = <<>>
        /\ pc \in {"start", "exited"}
        /\ pc = "exited" => exitCode = {1}

C1_Witness ==
    API_KEY = None /\ pc = "exited" /\ exitCode = {1} /\ posted = <<>>

\* C2 (as stated): for every N in 1..4, with a credential, if candidates
\* 1..N-1 returned 404 and candidate N returned 201, then exactly N POSTs
\* were issued, to candidates 1..N in the declared order, post_forum_reply
\* returned True and the exit code is 0.
C2_StopsAtFirst201 ==
    \A n \in 1..4 :
        ( /\ HasKey
          /\ Len(results) >= n
          /\ \A k \in 1..(n - 1) : Returned(k) /\ StatusOf(k) = 404
          /\ Returned(n) /\ StatusOf(n) = 201 )
        => /\ Urls = Prefix(n)
           /\ success = "True"
           /\ Ended
           /\ pc = "exited" => exitCode = {0}

\* C3: with a credential, as long as every candidate answered so far
\* returned a non-2xx status, the POSTs issued are a prefix of the declared
\* order (each URL once, none retried); once the scan has ended all four
\* were POSTed, post_forum_reply returned False and the exit code is 1.
C3_AllNon2xxTriesEachOnceInOrder ==
    ( /\ HasKey
      /\ \A k \in 1..Len(results) : Non2xx(k) )
    => /\ Len(posted) <= 4
       /\ Urls = Prefix(Len(posted))
       /\ Ended => /\ Len(results) = 4
                   /\ Urls = DeclaredOrder
                   /\ success = "False"
       /\ pc = "exited" => exitCode = {1}

C3_Witness ==
    /\ pc = "exited"
    /\ Len(results) = 4
    /\ \A k \in 1..4 : Non2xx(k)
    /\ StatusOf(1) = 400 /\ ~ results[1].response.text.enc
    /\ StatusOf(2) = 404
    /\ exitCode = {1}

\* C4: a transport exception raised by the POST to candidate i never aborts
\* the scan: for i < 4 the program is then about to POST to candidate i+1,
\* and that POST is what the scan does next; when the fourth raises too the
\* function returns False, and a run in which all four raised ends with
\* exit code 1.
C4_TransportErrorContinues ==
    [][ /\ (Handled /\ Last.raised) =>
             IF Len(posted) < 4
             THEN /\ pc' = "scan"
                  /\ idx' = Len(posted) + 1
                  /\ success' = "unset"
             ELSE /\ pc' = "main"
                  /\ success' = "False"
        /\ pc = "scan" =>
             /\ Len(posted') = Len(posted) + 1
             /\ posted'[Len(posted')].url = DeclaredOrder[idx]
        /\ ( /\ pc' = "exited"
             /\ Len(results') = 4
             /\ \A k \in 1..4 : results'[k].raised )
           => (exitCode' = {1} /\ success' = "False")
      ]_vars

C4_Witness ==
    /\ pc = "exited"
    /\ Len(results) = 4
    /\ \A k \in 1..4 : results[k].raised
    /\ Urls = DeclaredOrder
    /\ exitCode = {1}

\* C5 (as stated): an attempt is a success (the scan stops there and the
\* function returns True) if and only if its status is 200 or 201.
C5_SuccessIffStatus200Or201 ==
    \A k \in 1..Len(results) :
        Returned(k) =>
            ( StatusOf(k) \in {200, 201}
              <=> (success = "True" /\ Len(posted) = k) )

\* C6: every request handed to requests.post carries the JSON body
\* {"body": REPLY_CONTENT} and the header Authorization: Bearer <token>,
\* whichever candidate it goes to and whatever happened before, and the
\* payload and headers of the scan never change.
C6_SamePayloadAndHeaders ==
    /\ \A k \in 1..Len(posted) :
          /\ posted[k].json = [body |-> REPLY_CONTENT]
          /\ posted[k].headers.Authorization = "Bearer " \o API_KEY
    /\ pc \in {"scan", "await"} =>
          /\ payload = [body |-> REPLY_CONTENT]
          /\ headers.Authorization = "Bearer " \o API_KEY

C6_Witness ==
    /\ Len(posted) = 4
    /\ Len(results) = 3
    /\ results[1].raised
    /\ Returned(2) /\ StatusOf(2) = 400
    /\ Returned(3) /\ StatusOf(3) = 200
    /\ pc = "await"

\* the response makes the inner try raise: response.json() raises, or the
\* decoded value supports no `in`, or a value to echo cannot be written
ParseFails(r) ==
    \/ r.json.kind \in {"invalid", "scalar"}
    \/ /\ r.json.kind = "object"
       /\ \E f \in DOMAIN r.json.fields : ~ r.json.fields[f].enc

\* C7: when a candidate returned 200 or 201, its text was reported and the
\* decoding of the body (or reading id/url) then fails, the failure is not
\* reported, no further candidate is tried, post_forum_reply returns True
\* and the exit code is 0.
C7_ParseFailureKeepsSuccess ==
    [][ /\ ( /\ Handled
             /\ ~ Last.raised
             /\ Last.response.status_code \in {200, 201}
             /\ Last.response.text.enc
             /\ ParseFails(Last.response) )
           => /\ ErrorLines(out') = ErrorLines(out)
              /\ pc' = "main"
              /\ success' = "True"
        /\ (pc = "main" /\ success = "True")
           => /\ posted' = posted
              /\ pc' = "exited"
              /\ exitCode' = {0}
      ]_vars

C7_Witness ==
    /\ pc = "exited"
    /\ exitCode = {0}
    /\ Len(results) = 2
    /\ Len(posted) = 2
    /\ Returned(2)
    /\ StatusOf(2) = 201
    /\ results[2].response.text.enc
    /\ results[2].response.json.kind = "invalid"

\* C8 (as stated, taken for values the output can encode, as those of the
\* claim's own example are): when a candidate returned 200 or 201 with a
\* JSON object holding both id and url, a Reply ID line and a Reply URL
\* line with the two values are in the output, and the exit code is 0.
C8_IdAndUrlEchoed ==
    \A k \in 1..Len(results) :
        ( /\ SuccessStatus(k)
          /\ results[k].response.json.kind = "object"
          /\ {"id", "url"} \subseteq DOMAIN results[k].response.json.fields
          /\ \A f \in {"id", "url"} : results[k].response.json.fields[f].enc )
        => LET f == results[k].response.json.fields IN
           /\ \E j \in 1..Len(out) : out[j] = "Reply ID: " \o f["id"].s
           /\ \E j \in 1..Len(out) : out[j] = "Reply URL: " \o f["url"].s
           /\ pc = "exited" => exitCode = {0}

\* C9 (as stated): once a POST has returned 200 or 201 no further POST is
\* issued, so at most one request of a run is answered with a success
\* status.
C9_NoPostAfterSuccessStatus ==
    /\ \A k \in 1..Len(results) : SuccessStatus(k) => Len(posted) = k
    /\ Cardinality({k \in 1..Len(results) : SuccessStatus(k)}) <= 1

\* C10 (as stated): a run with a credential that has ended issued at most
\* four POSTs, its exit code is 0 or 1, and it is 0 if and only if some
\* attempt returned 200 or 201.
C10_ExitZeroIffSomeSuccessStatus ==
    (HasKey /\ pc = "exited") =>
        /\ Len(posted) <= 4
        /\ exitCode \in {{0}, {1}}
        /\ exitCode = {0} <=> \E k \in 1..Len(results) : SuccessStatus(k)

====
